---- MODULE Spec2Model ----
(***************************************************************************)
(* State-machine model of paper2epub: Paper2EpubConverter (converter.py),  *)
(* FigureExtractor and FigureMatcher (figure_extractor.py).                *)
(*                                                                         *)
(* Text is a sequence of atoms (a string cut into pieces no atom of which  *)
(* is a concatenation of others), so that concatenation is \o, the empty   *)
(* string is <<>> and equality of texts is equality of sequences.          *)
(*                                                                         *)
(* The external collaborators (nougat's LazyDataset and model inference,   *)
(* PyMuPDF, Pillow, ebooklib, the file system) are nondeterministic: each  *)
(* call returns one of its results or raises.  The nougat package itself   *)
(* is taken as installed (the imports at converter.py:123-124 succeed).    *)
(***************************************************************************)
EXTENDS Integers, Sequences, FiniteSets, TLC

\* ------------------------------------------------------------------ bounds
\* Pages of an input document (len(dataset), len(doc)).
MaxPages == 2
\* Embedded images listed on one page (len(page.get_images())).
MaxImages == 1
\* Assets in a list handed to insert_images_into_markdown directly.
MaxAssets == 3

\* The images listed by all the pages of a document handed to a
\* FigureExtractor directly.
MaxDocImages == 2

\* Atoms of a text handed to find_figure_references directly.
MaxLen == 4

\* ------------------------------------------------- program constants
\* figure_min_size, the default threshold handed to FigureExtractor.
FigureMinSize == 100
\* The longest digit string int() converts (CPython's
\* sys.int_info.default_max_str_digits); a longer one is a ValueError.
MaxStrDigits == 4300

\* ------------------------------------------------------------------ text
NL == "\n"

RECURSIVE Join(_, _)
\* sep.join(parts): the parts in order, sep between consecutive parts.
Join(parts, sep) ==
  IF parts = <<>> THEN <<>>
  ELSE IF Len(parts) = 1 THEN parts[1]
  ELSE parts[1] \o sep \o Join(Tail(parts), sep)

\* The blank-line separator of "\n\n".join(markdown_content).
PageSeparator == <<NL, NL>>

\* nougat.postprocessing.markdown_compatible: rewrites nougat markup into
\* Markdown/MathJax-compatible markup (here its \bm{ -> \mathbf{ rule) and
\* leaves every other piece of text as it is.
MarkdownCompatibleAtom(a) == IF a = "\\bm{x}" THEN "\\mathbf{x}" ELSE a

markdown_compatible(s) == [i \in 1..Len(s) |-> MarkdownCompatibleAtom(s[i])]

\* The texts the recognition model can return for one page: the empty
\* string, plain text, text with nougat markup.
PredTexts == { <<>>, <<"Result">>, <<"\\bm{x}">> }

\* outputs.get("predictions", []) for a batch of one page image: no
\* prediction at all, or one prediction.
Predictions == { <<>> } \cup { <<p>> : p \in PredTexts }

\* ------------------------------------------------------------- variables
VARIABLES
  \* Paper2EpubConverter fields
  extract_figures,   \* self.extract_figures
  figure_extractor,  \* self.figure_extractor: "None" or "FigureExtractor"
  figure_matcher,    \* self.figure_matcher: "None" or "FigureMatcher"
  _model,            \* self._model: "None" or "NougatModel"
  _model_loaded,     \* self._model_loaded
  \* FigureExtractor fields
  output_format,     \* self.output_format of the extractor ("PNG", "JPEG")
  min_width,         \* self.min_width of the extractor
  min_height,        \* self.min_height of the extractor
  \* the running convert() call
  pc,                \* position in convert / extract_pdf_to_markdown / extract_images
  pdf_kind,          \* the input path: "missing", "pdf", "other"
  save_markdown,     \* argument save_markdown
  n_pages,           \* len(dataset)
  idx,               \* loop variable of the page loop
  markdown_content,  \* extract_pdf_to_markdown's list of page texts
  full_markdown,     \* the text returned by it: convert's markdown_content
  images,            \* convert's images: list of (filename, bytes)
  \* a direct call on a FigureMatcher
  call_args,         \* the arguments of the call
  call_result,       \* the value the call returned
  \* the running extract_images() call
  doc_open,          \* the fitz document handle is open
  page_num,          \* loop variable over pages
  image_list,        \* page.get_images(full=True) of the current page
  img_index,         \* loop variable over image_list
  extracted,         \* extract_images' list `images`, then convert's extracted_images
  \* outside world
  log,               \* warnings and errors of the converter module's logger
  md_file,           \* the file <pdf>.md of the running conversion
  epub_file,         \* the EPUB at the output path of the running conversion
  outcome,           \* how the last convert() ended
  \* observation of the run (history)
  page_results,      \* what happened on each attempted page, in call order
  calls              \* collaborator calls made by the running conversion

extractor_vars == <<output_format, min_width, min_height>>
direct_vars == <<call_args, call_result>>
conv_vars == <<extract_figures, figure_extractor, figure_matcher, _model, _model_loaded, extractor_vars, direct_vars>>
run_vars == <<pc, pdf_kind, save_markdown, n_pages, idx, markdown_content, full_markdown, images>>
scan_vars == <<doc_open, page_num, image_list, img_index, extracted>>
world_vars == <<log, md_file, epub_file, outcome>>
hist_vars == <<page_results, calls>>
vars == <<conv_vars, run_vars, scan_vars, world_vars, hist_vars>>

\* ------------------------------------------------------------ the files
\* markdown.Markdown(...).convert: the chapter's HTML rendering of the text.
Html(markdown) == [html_of |-> markdown]

\* Mutant: the image items are stored at the top of the book, not under
\* images/.
EpubBookFlat(markdown, image_files) ==
  [written |-> TRUE,
   chapter |-> [html_of |-> markdown],
   items |-> [k \in DOMAIN image_files |->
                [file_name |-> image_files[k][1], content |-> image_files[k][2]]]]

\* markdown_to_epub, lines 213-339: the written book holds the chapter and
\* one item images/<filename> per (filename, bytes) pair, in the given
\* order.
EpubBook(markdown, image_files) ==
  [written |-> TRUE,
   chapter |-> Html(markdown),
   items |-> [k \in DOMAIN image_files |->
                [file_name |-> <<"images/">> \o image_files[k][1],
                 content |-> image_files[k][2]]]]

\* No EPUB at the output path.
NoEpub == [written |-> FALSE, chapter |-> Html(<<>>), items |-> <<>>]

\* markdown_path.write_text(markdown_content): the file holds the text.
MarkdownFile(text) == [written |-> TRUE, text |-> text]

\* No file at <pdf>.md.
NoMarkdownFile == [written |-> FALSE, text |-> <<>>]

\* ------------------------------------------------------------ construction
\* __init__: the scanner and the binder are built iff extract_figures.
NewFigureExtractor(ef) == IF ef THEN "FigureExtractor" ELSE "None"

NewFigureMatcher(ef) == IF ef THEN "FigureMatcher" ELSE "None"

NoCalls ==
  [load |-> 0, dataset |-> 0, render |-> 0, recognize |-> 0,
   scan |-> 0, bind |-> 0, save |-> 0, package |-> 0]

\* The locals of a convert() call that is not running.
IdleRun ==
  /\ pdf_kind = "none"
  /\ save_markdown = FALSE
  /\ n_pages = 0
  /\ idx = 0
  /\ markdown_content = <<>>
  /\ full_markdown = <<>>
  /\ images = <<>>

\* No direct call on a matcher was made.
NoCall == [op |-> "none"]

NoDirectCall ==
  /\ call_args = NoCall
  /\ call_result = NoCall

IdleScan ==
  /\ doc_open = FALSE
  /\ page_num = 0
  /\ image_list = <<>>
  /\ img_index = 0
  /\ extracted = <<>>

\* The state after Paper2EpubConverter(extract_figures=ef).
Init ==
  \E ef \in BOOLEAN :
    /\ extract_figures = ef
    /\ figure_extractor = NewFigureExtractor(ef)
    /\ figure_matcher = NewFigureMatcher(ef)
    /\ _model = "None"
    /\ _model_loaded = FALSE
    /\ output_format = "PNG"
    /\ min_width = FigureMinSize
    /\ min_height = FigureMinSize
    /\ pc = "idle"
    /\ IdleRun
    /\ IdleScan
    /\ NoDirectCall
    /\ log = <<>>
    /\ md_file = NoMarkdownFile
    /\ epub_file = NoEpub
    /\ outcome = "none"
    /\ page_results = <<>>
    /\ calls = NoCalls

\* ------------------------------------------------------- model lifecycle
\* What loading the model can do: succeed, fail at the import, fail in
\* get_checkpoint/from_pretrained, fail in .to(device)/.eval().
LoadResults == {"loaded", "import_error", "pretrained_error", "device_error"}

\* _load_model: self._model is assigned by from_pretrained (line 87) before
\* .to(device) and .eval() run, and _model_loaded is set last (line 90).
_load_model(r) ==
  CASE r = "loaded" ->
         [model |-> "NougatModel", loaded |-> TRUE, raised |-> "none"]
    [] r = "import_error" ->
         [model |-> _model, loaded |-> _model_loaded, raised |-> "ImportError"]
    [] r = "pretrained_error" ->
         [model |-> _model, loaded |-> _model_loaded, raised |-> "ModelLoadError"]
    [] r = "device_error" ->
         [model |-> "NougatModel", loaded |-> _model_loaded, raised |-> "ModelLoadError"]

\* The model property: loads on access unless _model_loaded.
model(r) ==
  IF ~_model_loaded THEN _load_model(r)
  ELSE [model |-> _model, loaded |-> _model_loaded, raised |-> "none"]

\* Mutant: the release drops the model and leaves the flag.
_cleanup_memory_keeps_flag ==
  [model |-> "None", loaded |-> _model_loaded]

\* _cleanup_memory: drops the model if one is held.
_cleanup_memory ==
  IF _model # "None" THEN [model |-> "None", loaded |-> FALSE]
  ELSE [model |-> _model, loaded |-> _model_loaded]

\* A caller releases the model between conversions.
Cleanup ==
  /\ pc \in {"idle", "Done", "Failed"}
  /\ _model' = _cleanup_memory.model
  /\ _model_loaded' = _cleanup_memory.loaded
  /\ UNCHANGED <<extract_figures, figure_extractor, figure_matcher, extractor_vars, direct_vars>>
  /\ UNCHANGED <<run_vars, scan_vars, world_vars, hist_vars>>

\* ---------------------------------------------------------------- convert
LogRecord(level, where, page) == [level |-> level, where |-> where, page |-> page]

\* An exception leaves convert(): the call ends without a return value.
Raise(exc) ==
  /\ pc' = "Failed"
  /\ outcome' = exc

\* Mutant: the text of the earlier conversion is still held when the next
\* one begins, and a conversion that finds it goes on with it.
StartConvertKeepsText ==
  /\ pc \in {"idle", "Done", "Failed"}
  /\ \E kind \in {"missing", "pdf", "other"}, sm \in BOOLEAN :
       /\ pdf_kind' = kind
       /\ save_markdown' = sm
  /\ pc' = IF full_markdown # <<>> THEN "Figures" ELSE "Init"
  /\ n_pages' = 0
  /\ idx' = 0
  /\ markdown_content' = <<>>
  /\ UNCHANGED full_markdown
  /\ images' = <<>>
  /\ doc_open' = FALSE
  /\ page_num' = 0
  /\ image_list' = <<>>
  /\ img_index' = 0
  /\ extracted' = <<>>
  /\ log' = <<>>
  /\ md_file' = NoMarkdownFile
  /\ epub_file' = NoEpub
  /\ outcome' = "running"
  /\ page_results' = <<>>
  /\ calls' = NoCalls
  /\ UNCHANGED conv_vars

\* convert(pdf_path, save_markdown=sm) is called: the defaults are set
\* (lines 365-376); nothing is validated here.
StartConvert ==
  /\ pc \in {"idle", "Done", "Failed"}
  /\ \E kind \in {"missing", "pdf", "other"}, sm \in BOOLEAN :
       /\ pdf_kind' = kind
       /\ save_markdown' = sm
  /\ pc' = "Init"
  /\ n_pages' = 0
  /\ idx' = 0
  /\ markdown_content' = <<>>
  /\ full_markdown' = <<>>
  /\ images' = <<>>
  /\ doc_open' = FALSE
  /\ page_num' = 0
  /\ image_list' = <<>>
  /\ img_index' = 0
  /\ extracted' = <<>>
  /\ log' = <<>>
  /\ md_file' = NoMarkdownFile
  /\ epub_file' = NoEpub
  /\ outcome' = "running"
  /\ page_results' = <<>>
  /\ calls' = NoCalls
  /\ UNCHANGED conv_vars

\* Mutant: the existence of the input is not checked before the model is
\* read.
CheckExistsMissing ==
  /\ pc = "Init"
  /\ pc' = "LoadModel"
  /\ UNCHANGED <<conv_vars, scan_vars, hist_vars, world_vars>>
  /\ UNCHANGED <<pdf_kind, save_markdown, n_pages, idx, markdown_content, full_markdown, images>>

\* extract_pdf_to_markdown, lines 126-130: the only check of the input is
\* that the path exists.
CheckExists ==
  /\ pc = "Init"
  /\ IF pdf_kind = "missing"
       THEN Raise("FileNotFoundError")
       ELSE pc' = "LoadModel" /\ UNCHANGED outcome
  /\ UNCHANGED <<conv_vars, scan_vars, hist_vars>>
  /\ UNCHANGED <<pdf_kind, save_markdown, n_pages, idx, markdown_content, full_markdown, images>>
  /\ UNCHANGED <<log, md_file, epub_file>>

\* Line 137: self.model is read to build the dataset; an exception is
\* logged by the outer handler (line 184) and re-raised.
LoadModel ==
  /\ pc = "LoadModel"
  /\ \E r \in LoadResults :
       LET m == model(r) IN
         /\ _model' = m.model
         /\ _model_loaded' = m.loaded
         /\ calls' = [calls EXCEPT !.load = IF _model_loaded THEN @ ELSE @ + 1]
         /\ IF m.raised # "none"
              THEN /\ Raise(m.raised)
                   /\ log' = Append(log, LogRecord("error", "extract", 0))
              ELSE /\ pc' = "OpenDataset"
                   /\ UNCHANGED <<outcome, log>>
  /\ UNCHANGED <<extract_figures, figure_extractor, figure_matcher, extractor_vars, direct_vars>>
  /\ UNCHANGED <<pdf_kind, save_markdown, n_pages, idx, markdown_content, full_markdown, images>>
  /\ UNCHANGED <<scan_vars, md_file, epub_file, page_results>>

\* Lines 135-141: LazyDataset(str(pdf_path), ...) reads the document and
\* its page count, or raises (a file that is no readable PDF).
OpenDataset ==
  /\ pc = "OpenDataset"
  /\ calls' = [calls EXCEPT !.dataset = @ + 1]
  /\ \/ /\ Raise("DatasetError")
        /\ log' = Append(log, LogRecord("error", "extract", 0))
        /\ UNCHANGED <<n_pages, idx, markdown_content>>
     \/ /\ \E n \in 0..MaxPages : n_pages' = n
        /\ idx' = 0
        /\ markdown_content' = <<>>
        /\ pc' = "Pages"
        /\ UNCHANGED <<outcome, log>>
  /\ UNCHANGED <<conv_vars, scan_vars>>
  /\ UNCHANGED <<pdf_kind, save_markdown, full_markdown, images>>
  /\ UNCHANGED <<md_file, epub_file, page_results>>

\* What one iteration of the page loop can meet.
PageOutcomes ==
  { [kind |-> k, preds |-> <<>>] :
      k \in {"render_exception", "render_none", "inference_exception"} }
  \cup { [kind |-> "predictions", preds |-> ps] : ps \in Predictions }

RECURSIVE AppendPredictions(_, _)
\* Lines 164-167: every non-empty prediction is made markdown compatible
\* and appended.
AppendPredictions(content, preds) ==
  IF preds = <<>> THEN content
  ELSE AppendPredictions(
         IF Head(preds) # <<>>
           THEN Append(content, markdown_compatible(Head(preds)))
           ELSE content,
         Tail(preds))

\* The warning or error the iteration logs (lines 149, 172), if any.
PageLog(page, o) ==
  CASE o.kind = "render_none" -> <<LogRecord("warning", "page", page)>>
    [] o.kind \in {"render_exception", "inference_exception"} ->
         <<LogRecord("error", "page", page)>>
    [] OTHER -> <<>>

\* Mutant: the texts of a page are put in front of the list.
PageContentPrepended(content, o) ==
  IF o.kind = "predictions" THEN AppendPredictions(<<>>, o.preds) \o content ELSE content

\* The list of page texts after the iteration on outcome o.
PageContent(content, o) ==
  IF o.kind = "predictions" THEN AppendPredictions(content, o.preds) ELSE content

\* Mutant: a failed page ends the page loop.
AfterPageBreaks(i, o) == IF o.kind = "predictions" THEN i + 1 ELSE n_pages

\* The index the loop goes to after the iteration on index i with outcome
\* o: the `continue` of lines 150 and 175 and the end of the body all go
\* on to the next index.
AfterPage(i, o) == i + 1

\* One iteration of the page loop, lines 144-175.
ProcessPage ==
  /\ pc = "Pages"
  /\ idx < n_pages
  /\ \E o \in PageOutcomes :
       /\ markdown_content' = PageContent(markdown_content, o)
       /\ log' = log \o PageLog(idx + 1, o)
       /\ page_results' = Append(page_results, [page |-> idx + 1, kind |-> o.kind, preds |-> o.preds])
       /\ calls' = [calls EXCEPT
            !.render = @ + 1,
            !.recognize = IF o.kind \in {"inference_exception", "predictions"} THEN @ + 1 ELSE @]
       /\ idx' = AfterPage(idx, o)
  /\ UNCHANGED <<conv_vars, scan_vars>>
  /\ UNCHANGED <<pc, pdf_kind, save_markdown, n_pages, full_markdown, images>>
  /\ UNCHANGED <<md_file, epub_file, outcome>>

\* Mutant: the check for empty content is missing.
NoContentUnchecked(content) == FALSE

\* Line 177: `not markdown_content`.
NoContent(content) == content = <<>>

\* Lines 177-185: after the loop, no content is a ValueError (logged by the
\* outer handler and re-raised), else the page texts are joined and
\* returned; the locals of extract_pdf_to_markdown end with the call.
FinishExtraction ==
  /\ pc = "Pages"
  /\ idx >= n_pages
  /\ IF NoContent(markdown_content)
       THEN /\ Raise("NoContentExtracted")
            /\ log' = Append(log, LogRecord("error", "extract", 0))
            /\ UNCHANGED full_markdown
       ELSE /\ full_markdown' = Join(markdown_content, PageSeparator)
            /\ pc' = "Figures"
            /\ UNCHANGED <<outcome, log>>
  /\ markdown_content' = <<>>
  /\ idx' = 0
  /\ UNCHANGED <<conv_vars, scan_vars, hist_vars>>
  /\ UNCHANGED <<pdf_kind, save_markdown, n_pages, images>>
  /\ UNCHANGED <<md_file, epub_file>>

\* ------------------------------------------------------- FigureExtractor
\* The embedded raster objects a document can hold, by xref: what
\* doc.extract_image and Image.open give for each.
\*   1: a decodable RGBA image of the default threshold in both sizes
\*   2: a decodable RGB image one pixel narrower than the default threshold
\*   3: an object that fails to decode
\*   4: a decodable CMYK image of the default threshold in both sizes
\*   5: a decodable RGB image one pixel lower than the default threshold
\*   6: a decodable LA image one pixel above the default threshold in both
\*   7: a decodable P (palette) image of the default threshold in both sizes
EmbeddedObject(xref) ==
  CASE xref = 1 -> [decodable |-> TRUE, width |-> FigureMinSize, height |-> FigureMinSize, mode |-> "RGBA"]
    [] xref = 2 -> [decodable |-> TRUE, width |-> FigureMinSize - 1, height |-> FigureMinSize + 100, mode |-> "RGB"]
    [] xref = 3 -> [decodable |-> FALSE, width |-> 0, height |-> 0, mode |-> "none"]
    [] xref = 4 -> [decodable |-> TRUE, width |-> FigureMinSize, height |-> FigureMinSize, mode |-> "CMYK"]
    [] xref = 5 -> [decodable |-> TRUE, width |-> FigureMinSize, height |-> FigureMinSize - 1, mode |-> "RGB"]
    [] xref = 6 -> [decodable |-> TRUE, width |-> FigureMinSize + 1, height |-> FigureMinSize + 1, mode |-> "LA"]
    [] xref = 7 -> [decodable |-> TRUE, width |-> FigureMinSize, height |-> FigureMinSize, mode |-> "P"]

\* convert() is running: extract_images was called from it (line 385), else
\* it is called on the extractor directly.
InConvert == outcome = "running"

\* The objects of the documents explored: conversions run on documents
\* holding the objects 1..3, the extractor alone on documents holding any.
ConvertXrefs == {1, 2, 3}

AllXrefs == {1, 2, 3, 4, 5, 6, 7}

Xrefs == IF InConvert THEN ConvertXrefs ELSE AllXrefs

\* The image lists page.get_images(full=True) can return.
RECURSIVE SeqsUpTo(_, _)
SeqsUpTo(S, n) ==
  IF n = 0 THEN { <<>> }
  ELSE LET shorter == SeqsUpTo(S, n - 1)
       IN shorter \cup { Append(q, x) : q \in shorter, x \in S }

ImageLists == SeqsUpTo(Xrefs, MaxImages)

\* What page.get_images(full=True) can return for the page at index p:
\* any list within a conversion, the list of the document handed over in
\* a direct call.
PageLists(p) ==
  IF InConvert THEN ImageLists ELSE { call_args.document[p + 1] }

\* The modes Pillow can write in each format.
Writable(fmt) ==
  IF fmt = "JPEG" THEN {"1", "L", "RGB", "CMYK"}
  ELSE {"1", "L", "LA", "I", "P", "RGB", "RGBA"}

\* _convert_image: for JPEG an RGBA or P image is first converted to RGB;
\* the save raises for a mode the format cannot hold.
_convert_image(xref, mode, fmt) ==
  LET saved == IF fmt = "JPEG" /\ mode \in {"RGBA", "P"} THEN "RGB" ELSE mode
  IN IF saved \in Writable(fmt)
       THEN [raised |-> FALSE, bytes |-> [encoded |-> fmt, mode |-> saved, of |-> xref]]
       ELSE [raised |-> TRUE, bytes |-> "none"]

Lower(fmt) == IF fmt = "JPEG" THEN "jpeg" ELSE "png"

\* Line 76: the size filter.
TooSmall(width, height, least_width, least_height) ==
  width < least_width \/ height < least_height

\* Mutant: the page is recorded by its 0-based loop index.
ExtractOneZeroBasedPage(found, page, index, xref, fmt) ==
  LET obj == EmbeddedObject(xref) IN
  IF ~obj.decodable
    THEN [images |-> found, warned |-> TRUE]
  ELSE IF TooSmall(obj.width, obj.height, min_width, min_height)
    THEN [images |-> found, warned |-> FALSE]
  ELSE LET out == _convert_image(xref, obj.mode, fmt) IN
    IF out.raised
      THEN [images |-> found, warned |-> TRUE]
      ELSE [images |-> Append(found,
              [page |-> page - 1, index |-> index, image_bytes |-> out.bytes,
               width |-> obj.width, height |-> obj.height,
               format |-> Lower(fmt), xref |-> xref]),
            warned |-> FALSE]

\* Mutant: a failure on one image gives up what its page gave so far.
ExtractOneFailureDropsPage(found, page, index, xref, fmt) ==
  LET obj == EmbeddedObject(xref)
      others == SelectSeq(found, LAMBDA img : img.page # page)
  IN
  IF ~obj.decodable
    THEN [images |-> others, warned |-> TRUE]
  ELSE IF TooSmall(obj.width, obj.height, min_width, min_height)
    THEN [images |-> found, warned |-> FALSE]
  ELSE LET out == _convert_image(xref, obj.mode, fmt) IN
    IF out.raised
      THEN [images |-> others, warned |-> TRUE]
      ELSE [images |-> Append(found,
              [page |-> page, index |-> index, image_bytes |-> out.bytes,
               width |-> obj.width, height |-> obj.height,
               format |-> Lower(fmt), xref |-> xref]),
            warned |-> FALSE]

\* Lines 66-109 for one listed image: the list of extracted images, and
\* whether the image was given up with a warning of the extractor's logger.
ExtractOne(found, page, index, xref, fmt) ==
  LET obj == EmbeddedObject(xref) IN
  IF ~obj.decodable
    THEN [images |-> found, warned |-> TRUE]
  ELSE IF TooSmall(obj.width, obj.height, min_width, min_height)
    THEN [images |-> found, warned |-> FALSE]
  ELSE LET out == _convert_image(xref, obj.mode, fmt) IN
    IF out.raised
      THEN [images |-> found, warned |-> TRUE]
      ELSE [images |-> Append(found,
              [page |-> page, index |-> index, image_bytes |-> out.bytes,
               width |-> obj.width, height |-> obj.height,
               format |-> Lower(fmt), xref |-> xref]),
            warned |-> FALSE]

\* ---------------------------------------------------------- FigureMatcher
DigitAtoms == <<"0", "1", "2", "3", "4", "5", "6", "7", "8", "9">>

RECURSIVE Decimal(_)
\* str(n) for n >= 0.
Decimal(n) ==
  IF n < 10 THEN <<DigitAtoms[n + 1]>>
  ELSE Decimal(n \div 10) \o <<DigitAtoms[(n % 10) + 1]>>

\* f"{n:03d}": zero-padded to at least three digits.
Pad3(n) ==
  LET d == Decimal(n)
  IN IF Len(d) >= 3 THEN d ELSE [i \in 1..(3 - Len(d)) |-> "0"] \o d

\* Mutant: the number is not zero-padded.
FigureFilenameUnpadded(figure_num, format) ==
  <<"figure_">> \o Decimal(figure_num) \o <<".", format>>

\* f"figure_{figure_num:03d}.{img['format']}"
FigureFilename(figure_num, format) == <<"figure_">> \o Pad3(figure_num) \o <<".", format>>

RECURSIVE SortedSeq(_)
\* sorted(S) for a finite set of integers.
SortedSeq(S) ==
  IF S = {} THEN <<>>
  ELSE LET m == CHOOSE x \in S : \A y \in S : x <= y
       IN <<m>> \o SortedSeq(S \ {m})

RECURSIVE ConcatAll(_)
\* The sequences of seqs one after the other, halving the list so that a
\* long one is not nested deeply.
ConcatAll(seqs) ==
  IF seqs = <<>> THEN <<>>
  ELSE IF Len(seqs) = 1 THEN seqs[1]
  ELSE LET half == Len(seqs) \div 2
       IN ConcatAll(SubSeq(seqs, 1, half)) \o ConcatAll(SubSeq(seqs, half + 1, Len(seqs)))

\* Lines 201-212: the images grouped by page, pages ascending, each page's
\* images in their order in the input list.
AssignmentOrder(imgs) ==
  LET pages == SortedSeq({ imgs[i].page : i \in DOMAIN imgs })
      ofPage(p) == SelectSeq(imgs, LAMBDA im : im.page = p)
  IN ConcatAll([k \in DOMAIN pages |-> ofPage(pages[k])])

\* Mutant: the embed lines leave out image_path_prefix.
FiguresSectionUnprefixed(ordered, image_path_prefix) ==
  <<NL, NL, "## Figures", NL, NL>> \o
  ConcatAll([k \in DOMAIN ordered |->
    <<"![Figure ">> \o Decimal(k) \o <<"](">> \o
    FigureFilename(k, ordered[k].format) \o <<")", NL, NL>>])

\* Lines 226-232: the section appended for the numbered figures.
FiguresSection(ordered, image_path_prefix) ==
  <<NL, NL, "## Figures", NL, NL>> \o
  ConcatAll([k \in DOMAIN ordered |->
    <<"![Figure ">> \o Decimal(k) \o <<"](", image_path_prefix>> \o
    FigureFilename(k, ordered[k].format) \o <<")", NL, NL>>])

\* Mutant: the section is appended whether or not there are insertions.
insert_images_always_section(markdown, imgs, image_path_prefix) ==
  LET ordered == AssignmentOrder(imgs)
  IN [markdown |-> markdown \o FiguresSection(ordered, image_path_prefix),
      image_files |-> [k \in DOMAIN ordered |->
                        <<FigureFilename(k, ordered[k].format), ordered[k].image_bytes>>]]

\* insert_images_into_markdown(markdown, images, image_path_prefix).
insert_images_into_markdown(markdown, imgs, image_path_prefix) ==
  LET ordered == AssignmentOrder(imgs)
      image_files == [k \in DOMAIN ordered |->
                        <<FigureFilename(k, ordered[k].format), ordered[k].image_bytes>>]
  IN [markdown |-> IF ordered # <<>>
                     THEN markdown \o FiguresSection(ordered, image_path_prefix)
                     ELSE markdown,
      image_files |-> image_files]

\* ------------------------------------ FigureMatcher.find_figure_references
\* The atoms the patterns tell apart.  re.IGNORECASE: every spelling of
\* the words matches.
FigureWords == {"Figure", "figure"}

FigAbbrevs == {"Fig.", "FIG.", "fig."}

\* \s
Spaces == {" ", "\n"}

\* A run of MaxStrDigits + 1 digits 1.
LongDigits == "1{4301}"

\* \d
Digits == {DigitAtoms[i] : i \in DOMAIN DigitAtoms} \cup {LongDigits}

\* The characters of an atom.
CharLen(a) ==
  CASE a \in FigureWords -> 6
    [] a \in FigAbbrevs -> 4
    [] a = " and " -> 5
    [] a = LongDigits -> MaxStrDigits + 1
    [] OTHER -> 1

RECURSIVE Offset(_, _)
\* The character offset at which atom i of the text starts.
Offset(text, i) == IF i = 1 THEN 0 ELSE Offset(text, i - 1) + CharLen(text[i - 1])

RECURSIVE RunEnd(_, _, _)
\* The index after the longest run of atoms of class S that starts at i
\* (a greedy \s+, \s* or \d+).
RunEnd(text, i, S) ==
  IF i <= Len(text) /\ text[i] \in S THEN RunEnd(text, i + 1, S) ELSE i

\* No atom of text[i..j] is a newline: `.` can match each of them.
DotMatches(text, i, j) == \A m \in i..j : text[m] # "\n"

NoMatch == [ok |-> FALSE, digits |-> <<>>, end |-> 0]

\* Figure\s+(\d+) at atom i.
FigureCore(text, i) ==
  LET s == RunEnd(text, i + 1, Spaces)
      d == RunEnd(text, s, Digits)
  IN IF i <= Len(text) /\ text[i] \in FigureWords /\ s > i + 1 /\ d > s
       THEN [ok |-> TRUE, digits |-> SubSeq(text, s, d - 1), end |-> d]
       ELSE NoMatch

\* Fig\.\s*(\d+) and FIG\.\s*(\d+) at atom i (the same under IGNORECASE).
FigAbbrevCore(text, i) ==
  LET s == RunEnd(text, i + 1, Spaces)
      d == RunEnd(text, s, Digits)
  IN IF i <= Len(text) /\ text[i] \in FigAbbrevs /\ d > s
       THEN [ok |-> TRUE, digits |-> SubSeq(text, s, d - 1), end |-> d]
       ELSE NoMatch

\* \[Figure\s+(\d+)\] at atom i.
BracketedCore(text, i) ==
  LET c == FigureCore(text, i + 1)
  IN IF i <= Len(text) /\ text[i] = "[" /\ c.ok /\ c.end <= Len(text) /\ text[c.end] = "]"
       THEN [ok |-> TRUE, digits |-> c.digits, end |-> c.end + 1]
       ELSE NoMatch

\* !\[.*?Figure\s+(\d+).*?\] at atom i: the lazy .*? take the first
\* Figure\s+(\d+) on the line of "![" after which a "]" follows with no
\* newline between, and the first such "]".
ImageMarkupCore(text, i) ==
  LET closes(d) == { c \in d..Len(text) : text[c] = "]" /\ DotMatches(text, d, c - 1) }
      starts == { k \in (i + 2)..Len(text) :
                    /\ DotMatches(text, i + 2, k - 1)
                    /\ FigureCore(text, k).ok
                    /\ closes(FigureCore(text, k).end) # {} }
  IN IF i + 1 <= Len(text) /\ text[i] = "!" /\ text[i + 1] = "[" /\ starts # {}
       THEN LET k == CHOOSE x \in starts : \A y \in starts : x <= y
                c == FigureCore(text, k)
                e == CHOOSE x \in closes(c.end) : \A y \in closes(c.end) : x <= y
            IN [ok |-> TRUE, digits |-> c.digits, end |-> e + 1]
       ELSE NoMatch

\* FIGURE_PATTERNS, in declaration order.
NPatterns == 5

MatchAt(p, text, i) ==
  CASE p = 1 -> FigureCore(text, i)
    [] p = 2 -> FigAbbrevCore(text, i)
    [] p = 3 -> FigAbbrevCore(text, i)
    [] p = 4 -> BracketedCore(text, i)
    [] p = 5 -> ImageMarkupCore(text, i)

\* The digits of a digit string.
DigitCount(digs) ==
  IF \E i \in DOMAIN digs : digs[i] = LongDigits THEN MaxStrDigits + Len(digs) ELSE Len(digs)

DigitValue(a) == CHOOSE v \in 0..9 : DigitAtoms[v + 1] = a

RECURSIVE IntValue(_)
IntValue(digs) ==
  IF digs = <<>> THEN 0
  ELSE 10 * IntValue(SubSeq(digs, 1, Len(digs) - 1)) + DigitValue(digs[Len(digs)])

\* int(match.group(1)): the number, or a ValueError for a digit string
\* longer than MaxStrDigits.
int(digs) ==
  IF DigitCount(digs) > MaxStrDigits
    THEN [raised |-> TRUE, value |-> 0]
    ELSE [raised |-> FALSE, value |-> IntValue(digs)]

RECURSIVE finditer(_, _, _)
\* pattern.finditer(markdown) from atom i on: the non-overlapping matches
\* from left to right, each as the dict of lines 164-168 (raised: int()
\* failed on it).
finditer(p, text, i) ==
  IF i > Len(text) THEN <<>>
  ELSE LET m == MatchAt(p, text, i)
       IN IF m.ok
            THEN << [figure_num |-> int(m.digits).value,
                     position |-> Offset(text, i),
                     match_text |-> SubSeq(text, i, m.end - 1),
                     raised |-> int(m.digits).raised] >>
                 \o finditer(p, text, m.end)
            ELSE finditer(p, text, i + 1)

\* Lines 159-169: the matches of all patterns, pattern after pattern.
AllMatches(text) == ConcatAll([p \in 1..NPatterns |-> finditer(p, text, 1)])

RECURSIVE InsertByPosition(_, _)
\* ref put into a list sorted by position, after the entries that do not
\* come later than it.
InsertByPosition(sorted, ref) ==
  IF sorted = <<>> THEN <<ref>>
  ELSE IF Head(sorted).position <= ref.position
    THEN <<Head(sorted)>> \o InsertByPosition(Tail(sorted), ref)
    ELSE <<ref>> \o sorted

\* Mutant: the list is left in pattern order.
UnsortedByPosition(refs) == refs

RECURSIVE SortByPosition(_)
\* Line 172: references.sort(key=position); the sort is stable.
SortByPosition(refs) ==
  IF refs = <<>> THEN <<>>
  ELSE InsertByPosition(SortByPosition(SubSeq(refs, 1, Len(refs) - 1)), refs[Len(refs)])

\* Mutant: no entry is dropped.
KeepAll(refs, seen_positions) == refs

RECURSIVE Deduplicate(_, _)
\* Lines 173-178: the first entry of each position is kept.
Deduplicate(refs, seen_positions) ==
  IF refs = <<>> THEN <<>>
  ELSE IF Head(refs).position \notin seen_positions
    THEN <<Head(refs)>> \o Deduplicate(Tail(refs), seen_positions \cup {Head(refs).position})
    ELSE Deduplicate(Tail(refs), seen_positions)

\* The dict of lines 164-168.
Reference(r) == [figure_num |-> r.figure_num, position |-> r.position, match_text |-> r.match_text]

\* find_figure_references(markdown): a ValueError of int() leaves the call,
\* else the deduplicated list is returned.
find_figure_references(text) ==
  LET references == AllMatches(text)
  IN IF \E i \in DOMAIN references : references[i].raised
       THEN [raised |-> TRUE, references |-> <<>>]
       ELSE LET deduplicated == Deduplicate(SortByPosition(references), {})
            IN [raised |-> FALSE,
                references |-> [i \in DOMAIN deduplicated |-> Reference(deduplicated[i])]]

\* ------------------------------------------------- convert: figure stage
\* Mutant: the text is written whether asked for or not.
AfterFiguresAlwaysSaves == "Save"

\* Lines 396-402: the step after the figure stage.
AfterFigures == IF save_markdown THEN "Save" ELSE "Packaging"

\* Mutant: the figure stage runs whatever self.extract_figures is.
FigureStageAlways ==
  /\ pc = "Figures"
  /\ images' = <<>>
  /\ pc' = "ScanOpen"
  /\ UNCHANGED <<conv_vars, scan_vars, world_vars, hist_vars>>
  /\ UNCHANGED <<pdf_kind, save_markdown, n_pages, idx, markdown_content, full_markdown>>

\* Lines 382-383: images starts empty; the figure stage runs iff
\* self.extract_figures.
FigureStage ==
  /\ pc = "Figures"
  /\ images' = <<>>
  /\ pc' = IF extract_figures THEN "ScanOpen" ELSE AfterFigures
  /\ UNCHANGED <<conv_vars, scan_vars, world_vars, hist_vars>>
  /\ UNCHANGED <<pdf_kind, save_markdown, n_pages, idx, markdown_content, full_markdown>>

\* Mutant: the figure stage is not guarded, its exception leaves convert().
FiguresFailedRaises ==
  /\ Raise("FigureExtractionError")
  /\ UNCHANGED <<log, images, full_markdown>>

\* Mutant: a failed figure stage is run again.
FiguresFailedRetries ==
  /\ log' = Append(log, LogRecord("warning", "figures", 0))
  /\ pc' = "ScanOpen"
  /\ UNCHANGED <<images, full_markdown, outcome>>

\* Lines 393-394: an exception out of the figure stage is logged as a
\* warning; images and the text keep the values they had.
FiguresFailed ==
  /\ log' = Append(log, LogRecord("warning", "figures", 0))
  /\ pc' = AfterFigures
  /\ UNCHANGED <<images, full_markdown, outcome>>

\* An exception leaves extract_images: into convert's handler, or to the
\* direct caller.
ScanRaises ==
  IF InConvert THEN FiguresFailed
  ELSE /\ pc' = "ScanRaised"
       /\ UNCHANGED <<log, images, full_markdown, outcome>>

\* extract_images returns its list: convert goes on at line 386, a direct
\* caller holds the list.
ScanReturns ==
  IF InConvert
    THEN pc' = IF extracted # <<>> THEN "Bind" ELSE AfterFigures
    ELSE pc' = "ScanReturned"

\* The locals of extract_images end with the call.
ScanLocalsEnd ==
  /\ page_num' = 0
  /\ image_list' = <<>>
  /\ img_index' = 0
  /\ extracted' = <<>>

\* extract_images, lines 54-57: fitz.open opens the document or raises.
ScanOpen ==
  /\ pc = "ScanOpen"
  /\ calls' = [calls EXCEPT !.scan = @ + 1]
  /\ \/ /\ ScanRaises
        /\ UNCHANGED scan_vars
     \/ /\ doc_open' = TRUE
        /\ page_num' = 0
        /\ image_list' = <<>>
        /\ img_index' = 0
        /\ extracted' = <<>>
        /\ pc' = "ScanPage"
        /\ UNCHANGED <<log, images, full_markdown, outcome>>
  /\ UNCHANGED <<conv_vars, md_file, epub_file, page_results>>
  /\ UNCHANGED <<pdf_kind, save_markdown, n_pages, idx, markdown_content>>

\* Lines 59-61: the next page and its image list are read; an exception
\* here leaves extract_images before doc.close() (line 111) is reached.
ScanPage ==
  /\ pc = "ScanPage"
  /\ page_num < n_pages
  /\ \/ /\ ScanRaises
        /\ ScanLocalsEnd
        /\ UNCHANGED doc_open
     \/ /\ \E l \in PageLists(page_num) :
             /\ image_list' = l
             /\ IF l = <<>>
                  THEN page_num' = page_num + 1 /\ pc' = "ScanPage"
                  ELSE page_num' = page_num /\ pc' = "ScanImage"
             /\ img_index' = 0
        /\ UNCHANGED <<doc_open, extracted, log, images, full_markdown, outcome>>
  /\ UNCHANGED <<conv_vars, md_file, epub_file, hist_vars>>
  /\ UNCHANGED <<pdf_kind, save_markdown, n_pages, idx, markdown_content>>

\* Lines 63-109: one listed image is extracted, filtered and re-encoded;
\* a failure on it is logged and the loop goes on.
ScanImage ==
  /\ pc = "ScanImage"
  /\ img_index < Len(image_list)
  /\ LET r == ExtractOne(extracted, page_num + 1, img_index,
                         image_list[img_index + 1], output_format)
     IN extracted' = r.images
  /\ IF img_index + 1 < Len(image_list)
       THEN /\ img_index' = img_index + 1
            /\ UNCHANGED <<page_num, pc>>
       ELSE /\ img_index' = 0
            /\ page_num' = page_num + 1
            /\ pc' = "ScanPage"
  /\ UNCHANGED <<conv_vars, world_vars, hist_vars>>
  /\ UNCHANGED <<doc_open, image_list>>
  /\ UNCHANGED <<pdf_kind, save_markdown, n_pages, idx, markdown_content, full_markdown, images>>

\* Lines 111-113 and convert's lines 385-386: the document is closed and
\* the list returned as extracted_images; an empty list skips the binding.
ScanClose ==
  /\ pc = "ScanPage"
  /\ page_num >= n_pages
  /\ doc_open' = FALSE
  /\ ScanReturns
  /\ page_num' = 0
  /\ image_list' = <<>>
  /\ img_index' = 0
  /\ UNCHANGED extracted
  /\ UNCHANGED <<conv_vars, world_vars, hist_vars>>
  /\ UNCHANGED <<pdf_kind, save_markdown, n_pages, idx, markdown_content, full_markdown, images>>

\* Lines 387-392: the figures are bound into the text; extracted_images
\* is not read again.
Bind ==
  /\ pc = "Bind"
  /\ LET r == insert_images_into_markdown(full_markdown, extracted, "images/")
     IN /\ full_markdown' = r.markdown
        /\ images' = r.image_files
  /\ calls' = [calls EXCEPT !.bind = @ + 1]
  /\ pc' = AfterFigures
  /\ extracted' = <<>>
  /\ UNCHANGED <<doc_open, page_num, image_list, img_index>>
  /\ UNCHANGED <<conv_vars, world_vars>>
  /\ UNCHANGED page_results
  /\ UNCHANGED <<pdf_kind, save_markdown, n_pages, idx, markdown_content>>

\* Lines 397-400: the text is written next to the input; write_text is
\* not guarded, so its exception leaves convert().
SaveMarkdown ==
  /\ pc = "Save"
  /\ calls' = [calls EXCEPT !.save = @ + 1]
  /\ \/ /\ md_file' = MarkdownFile(full_markdown)
        /\ pc' = "Packaging"
        /\ UNCHANGED outcome
     \/ /\ Raise("MarkdownWriteError")
        /\ UNCHANGED md_file
  /\ UNCHANGED <<conv_vars, scan_vars, log, epub_file>>
  /\ UNCHANGED page_results
  /\ UNCHANGED <<pdf_kind, save_markdown, n_pages, idx, markdown_content, full_markdown, images>>

\* ------------------------------------------------------------- packaging
\* Mutant: a failure of the packaging is swallowed and the path returned.
PackageSwallowsFailure ==
  /\ pc = "Packaging"
  /\ calls' = [calls EXCEPT !.package = @ + 1]
  /\ pc' = "Done"
  /\ outcome' = "returned"
  /\ \/ epub_file' = EpubBook(full_markdown, images)
     \/ UNCHANGED epub_file
  /\ UNCHANGED <<conv_vars, scan_vars, log, md_file>>
  /\ UNCHANGED page_results
  /\ UNCHANGED <<pdf_kind, save_markdown, n_pages, idx, markdown_content, full_markdown, images>>

\* Mutant: a failed packaging is tried once more.
PackageRetries ==
  /\ pc = "Packaging"
  /\ calls' = [calls EXCEPT !.package = @ + 1]
  /\ \/ /\ epub_file' = EpubBook(full_markdown, images)
        /\ pc' = "Done"
        /\ outcome' = "returned"
     \/ /\ IF calls.package = 0
             THEN UNCHANGED <<pc, outcome>>
             ELSE Raise("PackagingError")
        /\ UNCHANGED epub_file
  /\ UNCHANGED <<conv_vars, scan_vars, log, md_file>>
  /\ UNCHANGED page_results
  /\ UNCHANGED <<pdf_kind, save_markdown, n_pages, idx, markdown_content, full_markdown, images>>

\* Lines 403-413: markdown_to_epub writes the book and convert returns the
\* output path, or an exception of the packaging leaves convert().
Package ==
  /\ pc = "Packaging"
  /\ calls' = [calls EXCEPT !.package = @ + 1]
  /\ \/ /\ epub_file' = EpubBook(full_markdown, images)
        /\ pc' = "Done"
        /\ outcome' = "returned"
     \/ /\ Raise("PackagingError")
        /\ UNCHANGED epub_file
  /\ UNCHANGED <<conv_vars, scan_vars, log, md_file>>
  /\ UNCHANGED page_results
  /\ UNCHANGED <<pdf_kind, save_markdown, n_pages, idx, markdown_content, full_markdown, images>>

Next ==
  \/ StartConvert
  \/ CheckExists
  \/ LoadModel
  \/ OpenDataset
  \/ ProcessPage
  \/ FinishExtraction
  \/ FigureStage
  \/ ScanOpen
  \/ ScanPage
  \/ ScanImage
  \/ ScanClose
  \/ Bind
  \/ SaveMarkdown
  \/ Package
  \/ Cleanup

Spec == Init /\ [][Next]_vars

\* ------------------------------------------- the extractor used directly
\* The thresholds a FigureExtractor is built with.
Thresholds == {FigureMinSize, FigureMinSize + 1}

\* The state after FigureExtractor(min_width=w, min_height=h,
\* output_format=f), no converter being involved.
ScannerInit ==
  \E w \in Thresholds, h \in Thresholds, f \in {"PNG", "JPEG"} :
    /\ extract_figures = FALSE
    /\ figure_extractor = "FigureExtractor"
    /\ figure_matcher = "None"
    /\ _model = "None"
    /\ _model_loaded = FALSE
    /\ output_format = f
    /\ min_width = w
    /\ min_height = h
    /\ pc = "idle"
    /\ IdleRun
    /\ IdleScan
    /\ NoDirectCall
    /\ log = <<>>
    /\ md_file = NoMarkdownFile
    /\ epub_file = NoEpub
    /\ outcome = "none"
    /\ page_results = <<>>
    /\ calls = NoCalls

RECURSIVE DocumentsOf(_, _)
\* The documents of at most p pages listing at most n images in all: the
\* image list of each page.
DocumentsOf(p, n) ==
  IF p = 0 THEN { <<>> }
  ELSE { <<>> } \cup
       UNION { { <<l>> \o rest : rest \in DocumentsOf(p - 1, n - Len(l)) } :
               l \in SeqsUpTo(AllXrefs, n) }

Documents == DocumentsOf(MaxPages, MaxDocImages)

\* extract_images(pdf_path) is called on a document. An extractor's fields
\* are not written after construction, so a second call on it starts as
\* the first: one call per extractor is explored.
CallExtractImages ==
  /\ pc = "idle"
  /\ ~InConvert
  /\ \E d \in Documents :
       /\ call_args' = [op |-> "extract_images", document |-> d]
       /\ n_pages' = Len(d)
  /\ pc' = "ScanOpen"
  /\ doc_open' = FALSE
  /\ ScanLocalsEnd
  /\ calls' = NoCalls
  /\ UNCHANGED <<extract_figures, figure_extractor, figure_matcher, _model, _model_loaded, extractor_vars>>
  /\ UNCHANGED <<call_result, world_vars, page_results>>
  /\ UNCHANGED <<pdf_kind, save_markdown, idx, markdown_content, full_markdown, images>>

ScannerNext ==
  \/ CallExtractImages
  \/ ScanOpen
  \/ ScanPage
  \/ ScanImage
  \/ ScanClose

SpecScanner == ScannerInit /\ [][ScannerNext]_vars

\* ---------------------------------------------- the matcher used directly
\* The image dicts a caller can hand over: page, index, format; the bytes
\* of the i-th list element are tagged with i, so that they are pairwise
\* distinct.
AssetKeys == { <<p, i>> : p \in 1..3, i \in 0..1 }

AssetShapes == { [page |-> k[1], index |-> k[2], format |-> f] : k \in AssetKeys, f \in {"png", "jpeg"} }

ImageDict(shape, i) ==
  [page |-> shape.page, index |-> shape.index, format |-> shape.format,
   image_bytes |-> [blob |-> i]]

\* The lists of up to MaxAssets image dicts of pairwise distinct (page,
\* index), in any order.
AssetLists ==
  { [i \in DOMAIN q |-> ImageDict(q[i], i)] :
      q \in { r \in SeqsUpTo(AssetShapes, MaxAssets) :
                \A i, j \in DOMAIN r :
                  i # j => <<r[i].page, r[i].index>> # <<r[j].page, r[j].index>> } }

\* Lists long enough for two-digit and three-digit figure numbers: n
\* images of page 1 in index order.
LongLengths == {10, 100}

LongAssetList(n) ==
  [i \in 1..n |-> ImageDict([page |-> 1, index |-> i - 1, format |-> "png"], i)]

\* The texts handed over: empty, plain, and one that embeds an image itself.
BindTexts == { <<>>, <<"Result">>, <<"![Figure ", "1", "](", "plot.png", ")", NL, NL, "Result">> }

BindInputs ==
  { [op |-> "insert_images_into_markdown", markdown |-> t, images |-> l, image_path_prefix |-> pre] :
      t \in BindTexts,
      l \in AssetLists \cup { LongAssetList(n) : n \in LongLengths },
      pre \in { "images/", "figs/" } }

\* The state after FigureMatcher(), a caller holding the arguments of the
\* call it is about to make.
MatcherInit(args) ==
  /\ extract_figures = FALSE
  /\ figure_extractor = "None"
  /\ figure_matcher = "FigureMatcher"
  /\ _model = "None"
  /\ _model_loaded = FALSE
  /\ output_format = "PNG"
  /\ min_width = FigureMinSize
  /\ min_height = FigureMinSize
  /\ pc = "idle"
  /\ IdleRun
  /\ IdleScan
  /\ call_args = args
  /\ call_result = NoCall
  /\ log = <<>>
  /\ md_file = NoMarkdownFile
  /\ epub_file = NoEpub
  /\ outcome = "none"
  /\ page_results = <<>>
  /\ calls = NoCalls

BinderInit == \E args \in BindInputs : MatcherInit(args)

\* figure_matcher.insert_images_into_markdown(markdown, images,
\* image_path_prefix) is called and returns.
CallInsertImages ==
  /\ pc = "idle"
  /\ call_args.op = "insert_images_into_markdown"
  /\ call_result' =
       LET r == insert_images_into_markdown(call_args.markdown, call_args.images,
                                            call_args.image_path_prefix)
       IN [op |-> "returned", markdown |-> r.markdown, image_files |-> r.image_files]
  /\ pc' = "BindReturned"
  /\ UNCHANGED <<extract_figures, figure_extractor, figure_matcher, _model, _model_loaded, extractor_vars>>
  /\ UNCHANGED <<call_args, pdf_kind, save_markdown, n_pages, idx, markdown_content, full_markdown, images>>
  /\ UNCHANGED <<scan_vars, world_vars, hist_vars>>

BinderNext == CallInsertImages

SpecBinder == BinderInit /\ [][BinderNext]_vars

\* The texts handed to find_figure_references: every text of up to MaxLen
\* of these atoms, and longer texts of all the atoms the patterns tell
\* apart.
FindAtoms == {"Figure", "Fig.", " ", "1", "[", "]", "!"}

ScenarioC == <<"Figure", " ", "1", " and ", "Fig.", " ", "2", " and ", "FIG.", " ", "2">>

ScenarioTexts ==
  { ScenarioC,
    <<"[", "Figure", " ", "1", "]">>,
    <<"Fig.", "1", "Figure", " ", "1">>,
    <<"!", "[", "Figure", " ", "1", "]", "(", "x", ")">>,
    <<"!", "[", "x", " ", "figure", "\n", "1", "2", "x", "]">>,
    <<"!", "[", "Figure", " ", "1", " ", "Figure", "\n", "2", "]">>,
    <<"!", "[", "Figure", " ", "1", "\n", "Figure", " ", "2", "]">>,
    <<"Fig.", "2", " and ", "fig.", "\n", "0", "1">>,
    <<"Figure", " ", LongDigits>> }

FindTexts == SeqsUpTo(FindAtoms, MaxLen) \cup ScenarioTexts

FinderInit ==
  \E t \in FindTexts : MatcherInit([op |-> "find_figure_references", markdown |-> t])

\* The FigureMatcher objects a caller holds.
Matchers == {1, 2}

\* matcher.find_figure_references(markdown) is called, for the first time
\* or again on the same text, on one of the matchers; it returns its list
\* or raises.  `previous` keeps the lists the earlier calls returned.
CallFindReferences ==
  /\ pc \in {"idle", "FindReturned"}
  /\ call_args.op = "find_figure_references"
  /\ \E matcher \in Matchers :
       LET r == find_figure_references(call_args.markdown)
           previous == IF pc = "idle" THEN {}
                       ELSE call_result.previous \cup {call_result.references}
       IN /\ call_result' = [op |-> IF r.raised THEN "raised" ELSE "returned",
                             matcher |-> matcher,
                             references |-> r.references,
                             previous |-> previous]
          /\ pc' = IF r.raised THEN "FindRaised" ELSE "FindReturned"
  /\ UNCHANGED <<extract_figures, figure_extractor, figure_matcher, _model, _model_loaded, extractor_vars>>
  /\ UNCHANGED <<call_args, pdf_kind, save_markdown, n_pages, idx, markdown_content, full_markdown, images>>
  /\ UNCHANGED <<scan_vars, world_vars, hist_vars>>

FinderNext == CallFindReferences

SpecFinder == FinderInit /\ [][FinderNext]_vars

\* ===================================================== observations
\* The conversion has ended.
Terminal == pc \in {"Done", "Failed"}

\* Page result r carries recognized text.
Yields(r) == r.kind = "predictions" /\ \E i \in DOMAIN r.preds : r.preds[i] # <<>>

SomePageYielded == \E i \in DOMAIN page_results : Yields(page_results[i])

\* The pages attempted so far, in the order of the attempts.
AttemptedPages == [i \in DOMAIN page_results |-> page_results[i].page]

\* The result recorded for page p.
ResultOfPage(p) == page_results[CHOOSE i \in DOMAIN page_results : page_results[i].page = p]

\* The markdown text of page p (empty when the page yielded nothing).
TextOfPage(p) ==
  LET r == ResultOfPage(p)
  IN IF Yields(r) THEN markdown_compatible(r.preds[1]) ELSE <<>>

RECURSIVE BodyUpTo(_)
\* The texts of pages 1..p that yielded output, by ascending page number,
\* a blank line between consecutive texts.
BodyUpTo(p) ==
  IF p = 0 THEN <<>>
  ELSE LET before == BodyUpTo(p - 1)
           t == TextOfPage(p)
       IN IF t = <<>> THEN before
          ELSE IF before = <<>> THEN t
          ELSE before \o <<"\n", "\n">> \o t

\* The recognized text of the whole document.
RecognizedBody == BodyUpTo(n_pages)

\* The page loop has been left: every page of the opened document was up.
ExtractionOver ==
  /\ calls.dataset = 1
  /\ pc \notin {"OpenDataset", "Pages"}
  /\ outcome # "DatasetError"

\* Text extraction has returned a text to convert().
PastExtraction ==
  \/ pc \in {"Figures", "ScanOpen", "ScanPage", "ScanImage", "Bind", "Save", "Packaging", "Done"}
  \/ pc = "Failed" /\ outcome \in {"MarkdownWriteError", "PackagingError"}

\* The failures that can end a conversion after the figure stage.
LaterStageFailures == {"MarkdownWriteError", "PackagingError"}

\* The converter logged that the figure stage failed (line 394).
FigureWarning == \E i \in DOMAIN log : log[i].where = "figures"

\* The pages for which the converter logged a failure, in log order.
LoggedPageFailures ==
  LET recs == SelectSeq(log, LAMBDA r : r.where = "page")
  IN [i \in DOMAIN recs |-> recs[i].page]

\* The pages that yielded no text, in ascending page order.
PagesWithoutText ==
  LET rs == SelectSeq(page_results, LAMBDA r : ~Yields(r))
  IN [i \in DOMAIN rs |-> rs[i].page]

IsPrefix(a, b) == Len(a) <= Len(b) /\ SubSeq(b, 1, Len(a)) = a

\* ================================================================ claims

\* C1 (as stated): whatever fails on single pages, every later page is
\* still attempted and the conversion ends Succeeded whenever at least one
\* page yielded text.
C1_EndsSucceededWheneverAPageYielded ==
  (Terminal /\ SomePageYielded) => outcome = "returned"

\* C1 (amended): a failure on a page never aborts text extraction: the
\* pages are attempted one after the other up to the last, and whenever at
\* least one page yielded text the extraction returns the recognized text
\* (never NoContentExtracted), the conversion going on to the next stages;
\* only a failure of a later stage can then end it Failed, and a conversion
\* that returns has packaged a text that starts with the recognized text.
C1_PageFailureNeverAborts ==
  /\ pc = "Pages" =>
       /\ outcome = "running"
       /\ Len(page_results) = idx
       /\ AttemptedPages = [i \in 1..idx |-> i]
  /\ ExtractionOver => AttemptedPages = [i \in 1..n_pages |-> i]
  /\ (ExtractionOver /\ SomePageYielded) =>
       /\ PastExtraction
       /\ outcome \in {"running", "returned"} \cup LaterStageFailures
       /\ IsPrefix(RecognizedBody, full_markdown)
       /\ pc = "Done" => (outcome = "returned" /\ epub_file.chapter = Html(full_markdown))

\* C1 witness: 2 pages, the first fails in recognition, the second yields
\* "Result"; the conversion returned with the body text "Result".
C1_Witness ==
  /\ pc = "Done"
  /\ outcome = "returned"
  /\ n_pages = 2
  /\ Len(page_results) = 2
  /\ page_results[1].kind = "inference_exception"
  /\ page_results[2].preds = << <<"Result">> >>
  /\ full_markdown = <<"Result">>
  /\ epub_file.chapter = Html(<<"Result">>)

\* C2: if no page yields text once all pages were attempted (a document of
\* zero pages included), the conversion ends Failed(NoContentExtracted):
\* scanner, binder, intermediate save and packaging are never entered and
\* nothing is written.
C2_NoContentIsFatal ==
  (ExtractionOver /\ ~SomePageYielded) =>
    /\ pc = "Failed"
    /\ outcome = "NoContentExtracted"
    /\ Len(page_results) = n_pages
    /\ calls.scan = 0 /\ calls.bind = 0 /\ calls.save = 0 /\ calls.package = 0
    /\ md_file = NoMarkdownFile
    /\ epub_file = NoEpub
    /\ images = <<>>

\* C2 witness: both pages of a 2-page document were attempted, one raised
\* and one gave an empty prediction, and the conversion failed.
C2_Witness ==
  /\ pc = "Failed"
  /\ outcome = "NoContentExtracted"
  /\ n_pages = 2
  /\ Len(page_results) = 2
  /\ page_results[1].kind = "render_exception"
  /\ page_results[2].preds = << <<>> >>

\* C3 (as stated): after a successful text extraction a failure of the
\* figure scan is only a warning, and the conversion still ends Succeeded.
C3_ScanFailureStillSucceeds ==
  (Terminal /\ FigureWarning) => outcome = "returned"

\* C3 (amended): after a successful text extraction a failure raised while
\* scanning figures is downgraded to a warning: the binder is not called,
\* the asset list is empty and the text is the recognized text unchanged,
\* the conversion goes on to the steps after the figure stage, and once
\* the scanner has been called only a failure of those later steps can end
\* the conversion Failed; a conversion that returns has packaged exactly
\* the recognized text and no asset.
C3_ScanFailureDowngraded ==
  /\ calls.scan > 0 => outcome \in {"running", "returned"} \cup LaterStageFailures
  /\ FigureWarning =>
       /\ SomePageYielded
       /\ pc \in {"Save", "Packaging", "Done", "Failed"}
       /\ calls.bind = 0
       /\ images = <<>>
       /\ full_markdown = RecognizedBody
       /\ pc = "Done" => epub_file = EpubBook(RecognizedBody, <<>>)

\* C3 witness: the scan failed after the document was opened, and the
\* conversion returned with the recognized text and no image.
C3_Witness ==
  /\ pc = "Done"
  /\ outcome = "returned"
  /\ FigureWarning
  /\ doc_open
  /\ epub_file.items = <<>>
  /\ full_markdown = <<"Result">>

\* C4: a failure of the packaging ends the conversion Failed(PackagingError)
\* and leaves convert() as an exception; convert() returns the output path
\* only for a book that was written, with the text and images handed over.
C4_PackagingFailureIsFatal ==
  /\ outcome = "PackagingError" => (pc = "Failed" /\ epub_file = NoEpub)
  /\ outcome = "returned" =>
       /\ pc = "Done"
       /\ calls.package = 1
       /\ epub_file = EpubBook(full_markdown, images)
  /\ (calls.package = 1 /\ epub_file = NoEpub) =>
       (pc = "Failed" /\ outcome = "PackagingError")

\* C4 witness: the packaging failed although text and a figure were ready.
C4_Witness ==
  /\ pc = "Failed"
  /\ outcome = "PackagingError"
  /\ calls.package = 1
  /\ epub_file = NoEpub
  /\ Len(images) = 1

\* C5: the fatal outcomes are exactly: input not found or not a readable
\* document of the expected type; no page yielded text (a recognition model
\* that cannot be loaded yields none); packaging failure.  In particular a
\* failure to write the optional intermediate text does not end the
\* conversion Failed.
C5_OnlyThreeFatalOutcomes ==
  pc = "Failed" =>
    outcome \in {"FileNotFoundError", "InputFormatError", "DatasetError",
                 "NoContentExtracted", "ImportError", "ModelLoadError",
                 "PackagingError"}

\* C6: for a missing input the conversion fails with FileNotFoundError in
\* its first step: the model is not loaded, no dataset is opened, no page
\* is attempted and no later stage runs.
C6_MissingInputFailsFirst ==
  pdf_kind = "missing" =>
    /\ pc \in {"Init", "Failed"}
    /\ pc = "Failed" => outcome = "FileNotFoundError"
    /\ calls = NoCalls
    /\ page_results = <<>>
    /\ log = <<>>
    /\ md_file = NoMarkdownFile /\ epub_file = NoEpub

\* C6 witness: a fresh converter failed on a missing input, its model still
\* uninitialized.
C6_Witness ==
  /\ pdf_kind = "missing"
  /\ pc = "Failed"
  /\ outcome = "FileNotFoundError"
  /\ _model = "None"
  /\ ~_model_loaded

\* C7: an existing input that is not a PDF fails with InputFormatError in
\* the Init step: text extraction is not entered, the model is not loaded
\* and no page is handed to the recognition.
C7_NonPdfRejectedInInit ==
  pdf_kind = "other" =>
    /\ pc \in {"Init", "Failed"}
    /\ pc = "Failed" => outcome = "InputFormatError"
    /\ calls.load = 0 /\ calls.dataset = 0 /\ calls.render = 0 /\ calls.recognize = 0

\* C8: when text extraction has returned, the recorded per-page failures
\* are exactly the pages that failed to render, raised or gave empty
\* output, each once, in ascending page order.
C8_FailuresRecorded ==
  pc = "Figures" => LoggedPageFailures = PagesWithoutText

\* C9: the body text is the texts of the pages that yielded output in
\* ascending page-number order with a blank line between them, whatever
\* pages failed; nothing is concatenated before every page was attempted.
C9_BodyInPageOrder ==
  /\ pc \in {"Init", "LoadModel", "OpenDataset", "Pages"} => full_markdown = <<>>
  /\ pc = "Pages" => AttemptedPages = [i \in 1..idx |-> i]
  /\ pc = "Figures" =>
       /\ AttemptedPages = [i \in 1..n_pages |-> i]
       /\ full_markdown = RecognizedBody
  /\ PastExtraction => IsPrefix(RecognizedBody, full_markdown)

\* C9 witness: two pages with different texts, joined in page order by
\* the blank line.
C9_Witness ==
  /\ pc = "Figures"
  /\ n_pages = 2
  /\ page_results[1].preds = << <<"\\bm{x}">> >>
  /\ page_results[2].preds = << <<"Result">> >>
  /\ full_markdown = <<"\\mathbf{x}", "\n", "\n", "Result">>

\* C10: with figure extraction disabled the converter holds no scanner and
\* no binder, and a conversion goes from text extraction to the steps of
\* packaging without entering the figure stage: scanner and binder are
\* never called, the asset list is empty and the text is the recognized
\* text unchanged.
C10_DisabledFiguresSkipped ==
  ~extract_figures =>
    /\ figure_extractor = "None"
    /\ figure_matcher = "None"
    /\ pc \notin {"ScanOpen", "ScanPage", "ScanImage", "Bind"}
    /\ calls.scan = 0 /\ calls.bind = 0
    /\ ~doc_open
    /\ images = <<>>
    /\ pc \in {"Save", "Packaging", "Done"} => full_markdown = RecognizedBody
    /\ pc = "Done" => epub_file = EpubBook(RecognizedBody, <<>>)

\* C10 witness: a conversion without figure extraction is at Packaging
\* with the recognized text of two pages and no asset.
C10_Witness ==
  /\ ~extract_figures
  /\ pc = "Packaging"
  /\ n_pages = 2
  /\ full_markdown = <<"Result", "\n", "\n", "Result">>
  /\ images = <<>>

\* ------------------------------------------------ observations of a scan
\* The scan output holds the image listed at (page, index).
Emitted(page, index) ==
  \E k \in DOMAIN extracted : extracted[k].page = page /\ extracted[k].index = index

\* The size of obj is at least the extractor's threshold in both dimensions.
MeetsThreshold(obj) == obj.width >= min_width /\ obj.height >= min_height

\* The scan has just gone through the image list of page page_num.
PageScanned == pc = "ScanPage" /\ page_num > 0

\* C11: for every threshold and every image size, the scan output holds a
\* decodable embedded image if and only if its width >= min_width and its
\* height >= min_height: a smaller one is never emitted, one exactly at the
\* threshold in both dimensions is.
C11_EmittedIffAtLeastThreshold ==
  /\ \A k \in DOMAIN extracted : MeetsThreshold(extracted[k])
  /\ PageScanned =>
       \A i \in DOMAIN image_list :
         LET obj == EmbeddedObject(image_list[i])
         IN obj.decodable => (Emitted(page_num, i - 1) <=> MeetsThreshold(obj))

\* ------------------------------------------------ observations of a bind
BindReturned == pc = "BindReturned"

\* The number given to the i-th image of the input list: the position of
\* its bytes in the returned list.
NumberOf(i) ==
  CHOOSE k \in DOMAIN call_result.image_files :
    call_result.image_files[k][2] = call_args.images[i].image_bytes

\* (page, index) of image a comes before that of image b.
ComesBefore(a, b) == a.page < b.page \/ (a.page = b.page /\ a.index < b.index)

\* C12: bind assigns the figure numbers in ascending (page, index) order
\* whatever the order of the input list, across pages and among the
\* assets of one page.
C12_NumbersFollowPageAndIndex ==
  BindReturned =>
    \A i, j \in DOMAIN call_args.images :
      ComesBefore(call_args.images[i], call_args.images[j]) => NumberOf(i) < NumberOf(j)

\* k in decimal, for k < 1000.
PlainDigits(k) ==
  IF k < 10 THEN <<DigitAtoms[k + 1]>>
  ELSE IF k < 100 THEN <<DigitAtoms[(k \div 10) + 1], DigitAtoms[(k % 10) + 1]>>
  ELSE <<DigitAtoms[(k \div 100) + 1], DigitAtoms[((k \div 10) % 10) + 1], DigitAtoms[(k % 10) + 1]>>

\* k in three decimal digits, for k < 1000.
ThreeDigits(k) ==
  <<DigitAtoms[(k \div 100) + 1], DigitAtoms[((k \div 10) % 10) + 1], DigitAtoms[(k % 10) + 1]>>

\* C13: for a list of n assets bind returns exactly n (filename, bytes)
\* entries; the k-th is named figure_<k in three digits>.<format> and
\* carries the unmodified bytes of one input asset, whose format it names;
\* the names are pairwise distinct, no asset is dropped or duplicated.
C13_EntriesNumberedAndNamed ==
  BindReturned =>
    LET imgs == call_args.images
        files == call_result.image_files
    IN /\ Len(files) = Len(imgs)
       /\ \A k \in DOMAIN files :
            \E i \in DOMAIN imgs :
              /\ files[k][2] = imgs[i].image_bytes
              /\ files[k][1] = <<"figure_">> \o ThreeDigits(k) \o <<".", imgs[i].format>>
       /\ \A i \in DOMAIN imgs : \E k \in DOMAIN files : files[k][2] = imgs[i].image_bytes
       /\ \A k, l \in DOMAIN files :
            k # l => (files[k][1] # files[l][1] /\ files[k][2] # files[l][2])

\* C13 witness: three assets of mixed formats handed over out of page
\* order got the names figure_001 .. figure_003 with their own formats.
C13_Witness ==
  /\ BindReturned
  /\ Len(call_args.images) = 3
  /\ call_args.images[1].page = 3 /\ call_args.images[1].format = "jpeg"
  /\ call_args.images[2].page = 1 /\ call_args.images[2].format = "png"
  /\ call_args.images[3].page = 2 /\ call_args.images[3].format = "png"
  /\ call_result.image_files =
       << << <<"figure_", "0", "0", "1", ".", "png">>, [blob |-> 2] >>,
          << <<"figure_", "0", "0", "2", ".", "png">>, [blob |-> 3] >>,
          << <<"figure_", "0", "0", "3", ".", "jpeg">>, [blob |-> 1] >> >>

\* C14: bind with an empty asset list returns the input text unchanged and
\* an empty asset list, for every input text; it returns, it does not fail.
C14_EmptyBindIsNoOp ==
  (pc # "idle" /\ call_args.op = "insert_images_into_markdown" /\ call_args.images = <<>>) =>
    /\ BindReturned
    /\ call_result.op = "returned"
    /\ call_result.markdown = call_args.markdown
    /\ call_result.image_files = <<>>

\* C14 witness: the text "Result" and no asset came back as they were.
C14_Witness ==
  /\ BindReturned
  /\ call_args.images = <<>>
  /\ call_args.markdown = <<"Result">>
  /\ call_result.markdown = <<"Result">>
  /\ call_result.image_files = <<>>

\* The embed lines of the figures 1..k of the returned asset list, each
\* referencing image_path_prefix + filename.
EmbedLines(k) ==
  ConcatAll([j \in 1..k |->
    <<"![Figure ">> \o PlainDigits(j) \o
    <<"](", call_args.image_path_prefix>> \o call_result.image_files[j][1] \o
    <<")", "\n", "\n">>])

\* C15: for a non-empty asset list the returned text is the input text
\* unchanged followed by one figures section: the heading, then one embed
\* line per bound figure in assigned-number order, the k-th referencing
\* image_path_prefix + the k-th filename; nothing is put inside the body.
C15_OneAppendedFiguresSection ==
  (BindReturned /\ call_args.images # <<>>) =>
    call_result.markdown =
      call_args.markdown \o <<"\n", "\n", "## Figures", "\n", "\n">> \o
      EmbedLines(Len(call_result.image_files))

\* C15 witness: one asset of page 1 and one of page 2 bound into "Result".
C15_Witness ==
  /\ BindReturned
  /\ Len(call_args.images) = 2
  /\ call_args.images[1].page = 1 /\ call_args.images[2].page = 2
  /\ call_result.markdown =
       <<"Result", "\n", "\n", "## Figures", "\n", "\n",
         "![Figure ", "1", "](", "images/", "figure_", "0", "0", "1", ".", "png", ")", "\n", "\n",
         "![Figure ", "2", "](", "images/", "figure_", "0", "0", "2", ".", "png", ")", "\n", "\n">>

\* ------------------------------------------- observations of the hand-over
\* Text and asset list have been handed to the packaging step.
HandedToPackaging ==
  \/ pc \in {"Packaging", "Done"}
  \/ pc = "Failed" /\ outcome = "PackagingError"

\* The text carries a figures section.
HasFiguresSection(text) == \E i \in DOMAIN text : text[i] = "## Figures"

\* The paths named by the embed directives ![..](path) of the text, in the
\* order of the text.
EmbedPaths(text) ==
  LET opens == SortedSeq({ i \in DOMAIN text : text[i] = "](" })
      closeOf(i) == CHOOSE j \in (i + 1)..Len(text) :
                      text[j] = ")" /\ \A m \in (i + 1)..(j - 1) : text[m] # ")"
  IN [k \in DOMAIN opens |-> SubSeq(text, opens[k] + 1, closeOf(opens[k]) - 1)]

FindReturned == pc = "FindReturned"

\* The list the search returned.
Found == call_result.references

\* The matches of each pattern in the searched text.
PatternMatches == [p \in 1..NPatterns |-> finditer(p, call_args.markdown, 1)]

MatchesOf(p) == PatternMatches[p]

\* The offsets at which some pattern matches.
MatchOffsets ==
  UNION { { MatchesOf(p)[i].position : i \in DOMAIN MatchesOf(p) } : p \in 1..NPatterns }

\* The match at offset pos of the pattern declared earliest among those
\* matching there.
EarliestAt(pos) ==
  LET ps == { p \in 1..NPatterns : \E i \in DOMAIN MatchesOf(p) : MatchesOf(p)[i].position = pos }
      p1 == CHOOSE p \in ps : \A q \in ps : p <= q
      i1 == CHOOSE i \in DOMAIN MatchesOf(p1) : MatchesOf(p1)[i].position = pos
  IN MatchesOf(p1)[i1]

\* C17: for every input text, find_figure_references never returns two
\* entries with the same position.
C17_NoTwoEntriesAtOneOffset ==
  FindReturned =>
    \A i, j \in DOMAIN Found : i # j => Found[i].position # Found[j].position

\* C17 witness: "Fig. 1", which the second and the third pattern both
\* match at offset 0, came back as one entry.
C17_Witness ==
  /\ FindReturned
  /\ call_args.markdown = <<"Fig.", " ", "1">>
  /\ Len(MatchesOf(2)) = 1 /\ Len(MatchesOf(3)) = 1
  /\ Found = << [figure_num |-> 1, position |-> 0, match_text |-> <<"Fig.", " ", "1">>] >>

\* C18: the returned list is the matches of all patterns merged and sorted
\* ascending by position, with one entry per offset at which some pattern
\* matches: the number and the span of the match of the pattern declared
\* earliest among those matching there.
C18_SortedFirstPatternWins ==
  FindReturned =>
    /\ \A i, j \in DOMAIN Found : i < j => Found[i].position < Found[j].position
    /\ { Found[i].position : i \in DOMAIN Found } = MatchOffsets
    /\ \A i \in DOMAIN Found :
         /\ Found[i].figure_num = EarliestAt(Found[i].position).figure_num
         /\ Found[i].match_text = EarliestAt(Found[i].position).match_text

\* C18 witness: in "Figure 1 and Fig. 2 and FIG. 2" the first pattern
\* matches at offset 0, the second and the third both at offsets 13 and
\* 24; three entries came back in offset order.
C18_Witness ==
  /\ FindReturned
  /\ call_args.markdown = ScenarioC
  /\ Len(MatchesOf(1)) = 1 /\ Len(MatchesOf(2)) = 2 /\ Len(MatchesOf(3)) = 2
  /\ [i \in DOMAIN Found |-> Found[i].position] = <<0, 13, 24>>
  /\ [i \in DOMAIN Found |-> Found[i].figure_num] = <<1, 2, 2>>
  /\ Found[3].match_text = <<"FIG.", " ", "2">>

\* The figure citations of the searched text: the occurrences of Figure N
\* and of Fig. N, a bracketed or image-markup citation being the one
\* occurrence of Figure N it holds.
Citations == MatchesOf(1) \o MatchesOf(2)

\* C19: find_figure_references returns exactly one entry per figure
\* citation of the text, none when there is none ("Figure 1 and Fig. 2 and
\* FIG. 2" gives the numbers 1, 2, 2); a citation in bracketed form or in
\* image markup is returned once, not twice.
C19_OneEntryPerCitation ==
  FindReturned =>
    /\ Len(Found) = Len(Citations)
    /\ call_args.markdown = ScenarioC =>
         [i \in DOMAIN Found |-> Found[i].figure_num] = <<1, 2, 2>>

\* C20: find_figure_references is pure and total: it never fails on any
\* text, and a call on the same text, on the same or on another matcher,
\* returns the list every earlier call returned.
C20_PureAndTotal ==
  /\ pc # "FindRaised"
  /\ FindReturned =>
       \A earlier \in call_result.previous : earlier = Found

\* ------------------------------------------------ validate_pdf (utils.py)
\* The paths validate_pdf is called with: a directory, the stem of the file
\* name and its extension, and whether a file is at the path.
PathDirs == {"", "docs/", "/tmp/"}

PathStems == {"document", "paper.v2"}

PathExts == {".pdf", ".PDF", ".Pdf", ".txt", ".epub", ""}

ValidateInputs ==
  { [op |-> "validate_pdf", pdf_path |-> [dir |-> d, stem |-> s, ext |-> e], exists |-> x] :
      d \in PathDirs, s \in PathStems, e \in PathExts, x \in BOOLEAN }

\* Path.suffix: the extension of the final component.
Suffix(path) == path.ext

\* str.lower on an extension.
LowerExt(ext) ==
  CASE ext = ".PDF" -> ".pdf"
    [] ext = ".Pdf" -> ".pdf"
    [] OTHER -> ext

\* validate_pdf, lines 27-34: the existence test comes first.
validate_pdf(pdf_path, exists) ==
  IF ~exists
    THEN [op |-> "raised", exc |-> "FileNotFoundError"]
  ELSE IF LowerExt(Suffix(pdf_path)) # ".pdf"
    THEN [op |-> "raised", exc |-> "ValueError"]
  ELSE [op |-> "returned", value |-> pdf_path]

\* No converter, extractor or matcher exists: the function is called on
\* its own.
ValidateInit ==
  \E args \in ValidateInputs :
    /\ extract_figures = FALSE
    /\ figure_extractor = "None"
    /\ figure_matcher = "None"
    /\ _model = "None"
    /\ _model_loaded = FALSE
    /\ output_format = "PNG"
    /\ min_width = FigureMinSize
    /\ min_height = FigureMinSize
    /\ pc = "idle"
    /\ IdleRun
    /\ IdleScan
    /\ call_args = args
    /\ call_result = NoCall
    /\ log = <<>>
    /\ md_file = NoMarkdownFile
    /\ epub_file = NoEpub
    /\ outcome = "none"
    /\ page_results = <<>>
    /\ calls = NoCalls

\* validate_pdf(pdf_path) is called.
CallValidatePdf ==
  /\ pc = "idle"
  /\ call_args.op = "validate_pdf"
  /\ call_result' = validate_pdf(call_args.pdf_path, call_args.exists)
  /\ pc' = IF call_result'.op = "returned" THEN "ValidateReturned" ELSE "ValidateRaised"
  /\ UNCHANGED <<extract_figures, figure_extractor, figure_matcher, _model, _model_loaded, extractor_vars>>
  /\ UNCHANGED <<call_args, pdf_kind, save_markdown, n_pages, idx, markdown_content, full_markdown, images>>
  /\ UNCHANGED <<scan_vars, world_vars, hist_vars>>

ValidateNext == CallValidatePdf

SpecValidate == ValidateInit /\ [][ValidateNext]_vars

\* A call of validate_pdf has ended.
ValidateEnded == pc \in {"ValidateReturned", "ValidateRaised"}

\* The extension of the called path is .pdf, whatever the case of its
\* letters.
HasPdfExtension == call_args.pdf_path.ext \in {".pdf", ".PDF", ".Pdf"}

\* C21: validate_pdf raises ValueError for every path whose extension is
\* not .pdf in any case of letters, a file being at the path or not (as
\* "document.txt", which is not on disk); it raises FileNotFoundError for a
\* missing .pdf path and returns the path of a .pdf file that exists.
C21_ExtensionRejectedFirst ==
  ValidateEnded =>
    /\ ~HasPdfExtension => call_result = [op |-> "raised", exc |-> "ValueError"]
    /\ (HasPdfExtension /\ ~call_args.exists) =>
         call_result = [op |-> "raised", exc |-> "FileNotFoundError"]
    /\ (HasPdfExtension /\ call_args.exists) =>
         call_result = [op |-> "returned", value |-> call_args.pdf_path]

\* ------------------------------------------- observations of the stages
\* The stage of the state machine a position of convert() belongs to. The
\* test of self.extract_figures (line 383) still belongs to the stage
\* before it; writing the intermediate text is the step between binding
\* and packaging.
StageOf(at) ==
  CASE at = "idle" -> "None"
    [] at = "Init" -> "Init"
    [] at \in {"LoadModel", "OpenDataset", "Pages", "Figures"} -> "TextExtracting"
    [] at \in {"ScanOpen", "ScanPage", "ScanImage"} -> "FiguresExtracting"
    [] at = "Bind" -> "Binding"
    [] at = "Save" -> "Saving"
    [] at = "Packaging" -> "Packaging"
    [] at = "Done" -> "Done"
    [] at = "Failed" -> "Failed"

StageOrder ==
  <<"Init", "TextExtracting", "FiguresExtracting", "Binding", "Saving", "Packaging", "Done">>

\* The place of a stage in the order of the state machine.
StageRank(stage) == CHOOSE i \in DOMAIN StageOrder : StageOrder[i] = stage

\* convert() is called again: another run begins.
NewRunBegins == pc \in {"idle", "Done", "Failed"} /\ pc' = "Init" /\ outcome' = "running"

\* A step that changes the stage either begins a run, or leaves a stage
\* that is not terminal for a later stage or for Failed.
StageStep ==
  StageOf(pc') # StageOf(pc) =>
    \/ NewRunBegins
    \/ /\ StageOf(pc) \notin {"None", "Done", "Failed"}
       /\ \/ StageOf(pc') = "Failed"
          \/ /\ StageOf(pc') \in {StageOrder[i] : i \in DOMAIN StageOrder}
             /\ StageRank(StageOf(pc')) > StageRank(StageOf(pc))

\* Packaging was entered by the running conversion.
PackagingEntered == pc = "Packaging" \/ calls.package > 0

\* C22: in every run the stages are entered only in the order Init,
\* TextExtracting, FiguresExtracting (optional), Binding (optional),
\* Packaging, Done: no stage is entered twice or out of order, Packaging is
\* entered at most once and only after text extraction yielded text from
\* at least one page, and no stage runs after Done or Failed.
C22_StagesInOrder ==
  /\ [][StageStep]_vars
  /\ [](calls.package <= 1)
  /\ [](PackagingEntered => SomePageYielded)
  /\ [](pc = "Done" => calls.package = 1)

\* A conversion went through every stage and is Done.
C22_Witness ==
  /\ pc = "Done"
  /\ calls.scan = 1 /\ calls.bind = 1 /\ calls.save = 1 /\ calls.package = 1
  /\ Len(page_results) = MaxPages

\* ----------------------------------------- observations of a direct scan
\* A direct call of extract_images has ended: it returned its list, or an
\* exception left it.
ScanEnded == pc \in {"ScanReturned", "ScanRaised"}

\* The document handed to the running or the last direct call.
ScannedDocument == call_args.document

\* C23: the document handle the scan opened is closed on every exit path:
\* a normal return, a return after failures to decode single objects, and
\* an exception raised after the document was opened and partly enumerated
\* (reading a page, listing its images); no scan ends with the handle open.
C23_HandleClosedOnEveryExit == ScanEnded => ~doc_open

\* The object listed at index i (1-based) of page p of the scanned document.
ListedObject(p, i) == EmbeddedObject(ScannedDocument[p][i])

\* Decoding the object, or re-encoding it in the extractor's format, fails.
FailsToConvert(obj) ==
  \/ ~obj.decodable
  \/ _convert_image(0, obj.mode, output_format).raised

\* The scan has returned its list to the direct caller.
ScanReturned == pc = "ScanReturned"

\* The places (page, index) of the scan output, in output order.
OutputPlaces == [k \in DOMAIN extracted |-> <<extracted[k].page, extracted[k].index>>]

\* C24: a failure to decode or re-encode one embedded image makes the scan
\* skip that object only: every other listed object of at least the
\* threshold size, on the same page and on every later page, is still in
\* the output, and the step on an image never makes the scan fail.
C24_FailureSkipsThatObjectOnly ==
  /\ [](ScanReturned =>
          \A p \in DOMAIN ScannedDocument : \A i \in DOMAIN ScannedDocument[p] :
            LET obj == ListedObject(p, i)
            IN Emitted(p, i - 1) <=> (~FailsToConvert(obj) /\ MeetsThreshold(obj)))
  /\ [][pc = "ScanImage" => pc' \in {"ScanImage", "ScanPage"}]_vars

\* A returned scan in which an object failed and an object listed after it
\* on the same page, and one on a later page, are in the output.
C24_Witness ==
  /\ ScanReturned
  /\ \E p \in DOMAIN ScannedDocument : \E i, j \in DOMAIN ScannedDocument[p] :
       /\ i < j
       /\ FailsToConvert(ListedObject(p, i))
       /\ Emitted(p, j - 1)

\* (page, index) of place a is before that of place b.
PlaceBefore(a, b) == a[1] < b[1] \/ (a[1] = b[1] /\ a[2] < b[2])

\* The pages of the scan output, in output order.
OutputPages == [k \in DOMAIN extracted |-> extracted[k].page]

\* Every page of the scanned document lists the one object x, which is of
\* at least the threshold size and converts.
EveryPageListsOnly(x) ==
  /\ \A p \in DOMAIN ScannedDocument : ScannedDocument[p] = <<x>>
  /\ MeetsThreshold(EmbeddedObject(x))
  /\ ~FailsToConvert(EmbeddedObject(x))

\* C25: the scan output is in ascending (page, index) order with pages
\* numbered from 1, and holds one asset per listed qualifying object and
\* page: a document of n pages that each list one qualifying image, be it
\* the same object, gives n assets with the pages 1..n.
C25_OutputInPageIndexOrder ==
  /\ \A k \in DOMAIN extracted :
       /\ extracted[k].page \in 1..n_pages
       /\ k > 1 => PlaceBefore(OutputPlaces[k - 1], OutputPlaces[k])
  /\ ScanReturned =>
       /\ \A k \in DOMAIN extracted :
            /\ extracted[k].index + 1 \in DOMAIN ScannedDocument[extracted[k].page]
            /\ extracted[k].xref = ScannedDocument[extracted[k].page][extracted[k].index + 1]
       /\ \A x \in AllXrefs :
            EveryPageListsOnly(x) => OutputPages = [p \in 1..n_pages |-> p]

\* A returned scan of a document whose MaxPages pages each list the same
\* qualifying object.
C25_Witness ==
  /\ ScanReturned
  /\ n_pages = MaxPages
  /\ EveryPageListsOnly(1)
  /\ Len(extracted) = MaxPages

\* The Pillow modes with an alpha channel or a palette.
AlphaOrPaletteModes == {"RGBA", "LA", "PA", "RGBa", "La", "P"}

\* C26: with the output format JPEG every listed image of at least the
\* threshold size that has an alpha channel or a palette is in the scan
\* output, flattened to RGB, whatever its mode: none is dropped because of
\* its alpha channel or palette.
C26_AlphaAndPaletteFlattenedForJpeg ==
  (ScanReturned /\ output_format = "JPEG") =>
    \A p \in DOMAIN ScannedDocument : \A i \in DOMAIN ScannedDocument[p] :
      LET obj == ListedObject(p, i)
      IN (obj.decodable /\ MeetsThreshold(obj) /\ obj.mode \in AlphaOrPaletteModes) =>
           \E k \in DOMAIN extracted :
             /\ extracted[k].page = p
             /\ extracted[k].index = i - 1
             /\ extracted[k].image_bytes.encoded = "JPEG"
             /\ extracted[k].image_bytes.mode = "RGB"

\* ------------------------------------ observations of the model handle
\* The step reads self.model (line 137).
ModelAccessed == pc = "LoadModel" /\ pc' # pc

\* The step is a call of _cleanup_memory between conversions.
ModelReleased == pc \in {"idle", "Done", "Failed"} /\ pc' = pc

Uninitialized == ~_model_loaded

\* What each kind of step does to the handle.
ModelStep ==
  /\ (ModelAccessed /\ Uninitialized) =>
       /\ calls'.load = calls.load + 1
       /\ _model_loaded' => (_model' = "NougatModel" /\ pc' = "OpenDataset")
       /\ ~_model_loaded' => pc' = "Failed"
  /\ (ModelAccessed /\ ~Uninitialized) =>
       /\ calls'.load = calls.load
       /\ _model' = _model /\ _model_loaded'
       /\ pc' = "OpenDataset"
  /\ ModelReleased => (_model' = "None" /\ ~_model_loaded')
  /\ (~ModelAccessed /\ ~ModelReleased) => UNCHANGED <<_model, _model_loaded>>

\* C27: the model handle has a two-phase lifecycle over any sequence of
\* accesses, failed loads and releases: it is uninitialized after
\* construction, an access while uninitialized loads, an access while
\* initialized never loads again, a release returns it to uninitialized
\* with no model held, and in every state `loaded` implies that a model
\* object is held.
C27_ModelLifecycle ==
  /\ [](_model_loaded => _model # "None")
  /\ [](outcome = "none" => (Uninitialized /\ _model = "None"))
  /\ [][ModelStep]_vars

\* A later conversion went on with the model an earlier one loaded: the
\* access did not load.
C27_Witness ==
  /\ pc = "OpenDataset"
  /\ _model_loaded /\ _model = "NougatModel"
  /\ calls.load = 0

\* ------------------------------------- observations of a reused converter
\* The converter has served an earlier conversion: the model it loaded then
\* is still held, the running conversion did not load it.
ConverterReused == outcome = "running" /\ _model_loaded /\ calls.load = 0

\* What the binding makes of what the running conversion's own document
\* gave: the recognized text of its pages and the output of its own scan.
BoundByFreshConverter ==
  insert_images_into_markdown(RecognizedBody, extracted, "images/")

\* Nothing of an earlier conversion is in the locals and files of the one
\* that begins.
NothingCarriedOver ==
  /\ markdown_content = <<>> /\ full_markdown = <<>> /\ images = <<>>
  /\ extracted = <<>> /\ image_list = <<>>
  /\ page_results = <<>> /\ log = <<>>
  /\ md_file = NoMarkdownFile /\ epub_file = NoEpub

\* Text and asset list on their way to the packaging: the recognized text
\* and no asset until the binding, what the binding made of this run's
\* text and scan output after it, and nothing is changed from then on.
HandOverStep ==
  /\ pc = "Bind" =>
       /\ full_markdown' = BoundByFreshConverter.markdown
       /\ images' = BoundByFreshConverter.image_files
  /\ (pc \in {"Figures", "ScanOpen", "ScanPage", "ScanImage"} /\ pc' # "Failed") =>
       (full_markdown' = RecognizedBody /\ images' = <<>>)
  /\ pc \in {"Save", "Packaging"} => UNCHANGED <<full_markdown, images>>
  /\ pc' = "Done" => epub_file' = EpubBook(full_markdown, images)

\* C28: no state of one conversion leaks into the next when a converter is
\* reused: the text and the asset list packaged for a document after an
\* earlier conversion, successful or not, are those a fresh converter
\* packages for it.
C28_NoStateAcrossConversions ==
  /\ [](pc = "Init" => NothingCarriedOver)
  /\ [][HandOverStep]_vars

\* A reused converter is at Packaging with text and assets of its document.
C28_Witness ==
  /\ ConverterReused
  /\ pc = "Packaging"
  /\ n_pages = MaxPages
  /\ images # <<>>

\* ------------------------------- observations of the intermediate text
\* The positions of convert() up to the end of the figure stage.
UpToFigureStage ==
  {"Init", "LoadModel", "OpenDataset", "Pages", "Figures",
   "ScanOpen", "ScanPage", "ScanImage", "Bind", "Save"}

\* C29: when saving the intermediate text is requested, <pdf>.md is
\* written after the figure stage and before Packaging, and holds exactly
\* the text then handed to Packaging (with the figures section when
\* figures were bound); it is written only if text extraction succeeded,
\* and never when not requested.
C29_IntermediateTextSaved ==
  /\ ~save_markdown => (md_file = NoMarkdownFile /\ calls.save = 0)
  /\ pc \in UpToFigureStage => md_file = NoMarkdownFile
  /\ md_file.written =>
       /\ save_markdown /\ calls.save = 1
       /\ SomePageYielded
       /\ md_file.text = full_markdown
       /\ IsPrefix(RecognizedBody, md_file.text)
       /\ HasFiguresSection(md_file.text) <=> images # <<>>
  /\ (save_markdown /\ HandedToPackaging) => md_file = MarkdownFile(full_markdown)
  /\ (save_markdown /\ pc = "Done") => epub_file.chapter = Html(md_file.text)

\* The written text holds the figures section of a conversion that bound
\* figures and is at Packaging.
C29_Witness ==
  /\ save_markdown
  /\ pc = "Packaging"
  /\ images # <<>>
  /\ md_file.written
  /\ HasFiguresSection(md_file.text)
  /\ IsPrefix(RecognizedBody, md_file.text)

\* ------------------------------------------------- one conversion, fairly
\* convert() is called once on a converter just built.
StartOnce == pc = "idle" /\ StartConvert

\* The steps of a running conversion.
RunStep ==
  \/ CheckExists
  \/ LoadModel
  \/ OpenDataset
  \/ ProcessPage
  \/ FinishExtraction
  \/ FigureStage
  \/ ScanOpen
  \/ ScanPage
  \/ ScanImage
  \/ ScanClose
  \/ Bind
  \/ SaveMarkdown
  \/ Package

LiveNext == StartOnce \/ RunStep

\* convert() runs in one thread of control and every call it makes returns
\* or raises: a conversion that can take a step takes it.
SpecLive == Init /\ [][LiveNext]_vars /\ WF_vars(RunStep)

\* ------------------------------------------- observations of the progress
Running == pc \notin {"idle", "Done", "Failed"}

PcOrder ==
  <<"idle", "Init", "LoadModel", "OpenDataset", "Pages", "Figures", "ScanOpen",
    "ScanPage", "Bind", "Save", "Packaging", "Done">>

\* The place of a position in the text of convert(); the two positions of
\* the scan loops share one place, the two ends share the last.
PcRank(at) ==
  LET name == CASE at = "ScanImage" -> "ScanPage"
                [] at = "Failed" -> "Done"
                [] OTHER -> at
  IN CHOOSE i \in DOMAIN PcOrder : PcOrder[i] = name

\* How far the conversion is: the position, the page of the page loop,
\* the page of the scan and the image on it.
Progress ==
  <<PcRank(pc), idx, page_num, IF pc = "ScanImage" THEN img_index + 1 ELSE 0>>

RECURSIVE LexLess(_, _)
LexLess(a, b) ==
  /\ a # <<>>
  /\ \/ Head(a) < Head(b)
     \/ Head(a) = Head(b) /\ LexLess(Tail(a), Tail(b))

\* The extraction of a listed image is attempted: the pair (page, index).
ImageAttempt == <<page_num + 1, img_index>>

\* C30: every conversion of a document of finitely many pages and images
\* ends in Done or Failed, provided every collaborator call returns or
\* raises: each page is attempted exactly once, each listed image at most
\* once per page, and no step goes back: every step takes the conversion
\* further in (position, page, image).
C30_ConversionEnds ==
  /\ Running ~> Terminal
  /\ [][LexLess(Progress, Progress')]_vars
  /\ [][(pc = "Pages" /\ pc' = "Pages") =>
          page_results' = Append(page_results, page_results'[idx + 1])]_vars
  /\ [](PastExtraction => AttemptedPages = [i \in 1..n_pages |-> i])
  /\ [](pc = "Pages" => Len(page_results) = idx)

\* A conversion ended after every page of its document was attempted and
\* every listed image extracted.
C30_Witness ==
  /\ Terminal
  /\ n_pages = MaxPages
  /\ Len(page_results) = MaxPages
  /\ Len(images) = MaxPages * MaxImages

====
